---- MODULE Spec2Model ----
(***************************************************************************)
(* Model of package httpdeadline: the http.Handler middleware FromHeader   *)
(* and FromQueryParams, which read a deadline from a named header or query *)
(* parameter, parse it with http.ParseTime and hand the wrapped handler a  *)
(* context derived with context.WithDeadline.                              *)
(*                                                                         *)
(* Text is modelled as a sequence of tokens, one per element of a time     *)
(* layout; the empty string is the empty sequence.  An instant is an       *)
(* integer: a UTC year and a position within the year (month, day and      *)
(* clock taken together), at whole-second granularity.                     *)
(***************************************************************************)
EXTENDS Integers, Sequences, FiniteSets, TLC

VARIABLES
    now,          \* the wall clock, an instant
    req,          \* per invocation: the request (kind of adapter, Header, Query)
    parent,       \* per invocation: the request's incoming context
    child,        \* per invocation: the context derived by WithDeadline
    pc,           \* per invocation: where the adapter's invocation is
    deferred,     \* per invocation: the deferred calls not yet run
    panicking,    \* per invocation: whether the handler panicked
    calls,        \* per invocation: how often the wrapped handler was invoked
    recv,         \* per invocation: what the wrapped handler received
    resp,         \* per invocation: the writes to the response, in order
    cancelCalls   \* per invocation: how often the cancel function was called

vars == <<now, req, parent, child, pc, deferred, panicking, calls, recv, resp,
          cancelCalls>>

\* Last position of the clock within the year of the requests; the clock
\* starts at position 0 of NowYear and stops advancing at MaxTick.
MaxTick == 3

Procs == {"a", "b"}

\* Years of the instants requests carry: below, inside and above the window
\* 1969..2068 that a two-digit year expands to.
NowYear == 2024
Years == {1968, NowYear, 2069}

Stamp(y, r) == y * (MaxTick + 1) + r
Year(t) == t \div (MaxTick + 1)
Rest(t) == t % (MaxTick + 1)

Instants == {Stamp(y, 0) : y \in Years} \cup {Stamp(NowYear, r) : r \in 0..MaxTick}

(***************************************************************************)
(* Time layouts, formatting and parsing.                                   *)
(***************************************************************************)
Tok(k, n) == [k |-> k, n |-> n]

\* "Mon, 02 Jan 2006 15:04:05 GMT"
TimeFormat == <<"Mon,", "02 Jan", "2006", "15:04:05", "GMT">>
\* "Monday, 02-Jan-06 15:04:05 MST"
RFC850 == <<"Monday,", "02-Jan-", "06", "15:04:05", "MST">>
\* "Mon Jan _2 15:04:05 2006"
ANSIC == <<"Mon", "Jan _2", "15:04:05", "2006">>

\* The layouts http.ParseTime tries, in order.
timeFormats == <<TimeFormat, RFC850, ANSIC>>

\* t.Format(layout) for a UTC time t: the text of one layout element.
FormatElem(e, t) ==
    CASE e = "2006" -> Tok("2006", Year(t))
      [] e = "06" -> Tok("06", Year(t) % 100)
      [] e = "15:04:05" -> Tok("15:04:05", Rest(t))
      [] e = "MST" -> Tok("UTC", 0)
      [] OTHER -> Tok(e, 0)

Format(t, layout) == [i \in 1..Len(layout) |-> FormatElem(layout[i], t)]

asTimeFormat(t) == Format(t, TimeFormat)
asRFC850(t) == Format(t, RFC850)
asANSIC(t) == Format(t, ANSIC)

garbage == <<Tok("garbage", 0)>>

\* Whether one token of the value matches one element of the layout.
MatchElem(e, tok) ==
    CASE e = "2006" -> tok.k = "2006" /\ tok.n \in 0..9999
      [] e = "06" -> tok.k = "06" /\ tok.n \in 0..99
      [] e = "MST" -> tok.k \in {"UTC", "GMT"}
      [] OTHER -> tok.k = e

\* A two-digit year read without the pivot at 69: always 19yy.
ParsedYearNoPivot(tok) == IF tok.k = "06" THEN 1900 + tok.n ELSE tok.n

\* The year a parsed year token stands for; a two-digit year yy is 19yy
\* from 69 on and 20yy below.
ParsedYear(tok) ==
    IF tok.k = "06"
    THEN (IF tok.n >= 69 THEN 1900 + tok.n ELSE 2000 + tok.n)
    ELSE tok.n

\* A parse that stops at the end of the layout and ignores what follows.
ParseIgnoringExtraText(layout, value) ==
    IF /\ Len(value) >= Len(layout)
       /\ \A i \in 1..Len(layout) : MatchElem(layout[i], value[i])
    THEN LET yi == CHOOSE i \in 1..Len(layout) : layout[i] \in {"2006", "06"}
             ci == CHOOSE i \in 1..Len(layout) : layout[i] = "15:04:05"
         IN  [err |-> FALSE, time |-> Stamp(ParsedYear(value[yi]), value[ci].n)]
    ELSE [err |-> TRUE, time |-> 0]

\* time.Parse(layout, value): every element must match and no text may
\* remain; the result is in UTC.
Parse(layout, value) ==
    IF /\ Len(value) = Len(layout)
       /\ \A i \in 1..Len(layout) : MatchElem(layout[i], value[i])
    THEN LET yi == CHOOSE i \in 1..Len(layout) : layout[i] \in {"2006", "06"}
             ci == CHOOSE i \in 1..Len(layout) : layout[i] = "15:04:05"
         IN  [err |-> FALSE, time |-> Stamp(ParsedYear(value[yi]), value[ci].n)]
    ELSE [err |-> TRUE, time |-> 0]

RECURSIVE ParseFrom(_, _)
ParseFrom(k, text) ==
    IF k > Len(timeFormats)
    THEN [err |-> TRUE, time |-> 0]
    ELSE LET r == Parse(timeFormats[k], text)
         IN  IF ~r.err THEN r ELSE ParseFrom(k + 1, text)

\* http.ParseTime(text): the first layout that parses wins.
ParseTime(text) == ParseFrom(1, text)

(***************************************************************************)
(* Header and query lookups.                                               *)
(***************************************************************************)
HeaderName == "X-MTP-Deadline"
QueryName == "mtpdeadline"

CanonicalHeaderKey(s) == IF s = "X-MTP-Deadline" THEN "X-Mtp-Deadline" ELSE s

\* A lookup that does not distinguish a missing key.
HeaderHasAlways(header, name) == TRUE

\* req.Header[http.CanonicalHeaderKey(name)]: the found flag.
HeaderHas(header, name) == CanonicalHeaderKey(name) \in DOMAIN header

\* req.Header.Get(name): the first value of the canonical key, or "".
HeaderGet(header, name) ==
    LET key == CanonicalHeaderKey(name)
    IN  IF key \in DOMAIN header /\ Len(header[key]) > 0
        THEN header[key][1]
        ELSE <<>>

\* req.URL.Query().Get(name): the first value of the key, or "".
QueryGet(query, name) ==
    IF name \in DOMAIN query /\ Len(query[name]) > 0
    THEN query[name][1]
    ELSE <<>>

\* Presence decided by the value being non-empty.
QueryHasNonEmpty(query, name) == QueryGet(query, name) # <<>>

\* req.URL.Query().Has(name)
QueryHas(query, name) == name \in DOMAIN query

(***************************************************************************)
(* Contexts.                                                               *)
(***************************************************************************)
\* A context without deadline reports the zero time and ok = FALSE.
Background == [deadline |-> 0, ok |-> FALSE, err |-> "nil"]

NoChild == [exists |-> FALSE, deadline |-> 0, ok |-> FALSE, err |-> "nil",
            timer |-> FALSE]

\* A derivation that keeps the deadline of any parent that has one.
WithDeadlineKeepsParent(p, d, t) ==
    IF p.ok
    THEN [exists |-> TRUE, deadline |-> p.deadline, ok |-> TRUE, err |-> p.err,
          timer |-> FALSE]
    ELSE [exists |-> TRUE, deadline |-> d, ok |-> TRUE,
          err |-> IF p.err # "nil" THEN p.err
                  ELSE IF d <= t THEN "DeadlineExceeded" ELSE "nil",
          timer |-> p.err = "nil" /\ d > t]

\* context.WithDeadline(p, d) at time t.  A parent whose deadline is sooner
\* yields WithCancel(p), which inherits the parent's deadline; a parent that
\* is already done cancels the child at once; a deadline that has passed
\* cancels the child at once; otherwise a timer is armed.
WithDeadline(p, d, t) ==
    IF p.ok /\ p.deadline < d
    THEN [exists |-> TRUE, deadline |-> p.deadline, ok |-> TRUE, err |-> p.err,
          timer |-> FALSE]
    ELSE [exists |-> TRUE, deadline |-> d, ok |-> TRUE,
          err |-> IF p.err # "nil" THEN p.err
                  ELSE IF d <= t THEN "DeadlineExceeded" ELSE "nil",
          timer |-> p.err = "nil" /\ d > t]

\* The cancel function returned by WithDeadline: the first cancellation wins,
\* the timer is stopped.
cancel(c) == [c EXCEPT !.err = IF c.err = "nil" THEN "Canceled" ELSE c.err,
                       !.timer = FALSE]

\* Cancellation of a parent reaches the child derived from it.
propagateCancel(c, err) ==
    IF c.exists /\ c.err = "nil"
    THEN [c EXCEPT !.err = err, !.timer = FALSE]
    ELSE c

(***************************************************************************)
(* The requests.                                                           *)
(***************************************************************************)
EmptyMap == <<>>

Fixture == Stamp(NowYear, 1)

Layouts == {TimeFormat, RFC850, ANSIC}

ValidValues == {Format(t, l) : t \in Instants, l \in Layouts}

InvalidValues ==
    {Format(Fixture, l) \o garbage : l \in Layouts}
        \cup {garbage, SubSeq(asTimeFormat(Fixture), 1, 4)}

Values == {<<>>} \cup ValidValues \cup InvalidValues

\* The value lists of a field with more than one value.
MultiValues ==
    {<<v, w>> : v, w \in {<<>>, asTimeFormat(Fixture), asANSIC(Fixture) \o garbage}}

HeaderMaps ==
    {EmptyMap}
        \cup {CanonicalHeaderKey(HeaderName) :> vs :
                 vs \in {<<>>} \cup {<<v>> : v \in Values} \cup MultiValues}

QueryMaps ==
    {EmptyMap}
        \cup {QueryName :> vs : vs \in {<<v>> : v \in Values} \cup MultiValues}

Requests ==
    {[kind |-> "header", Header |-> h, Query |-> EmptyMap] : h \in HeaderMaps}
        \cup {[kind |-> "query", Header |-> EmptyMap, Query |-> q] : q \in QueryMaps}

NoRequest == [kind |-> "none", Header |-> EmptyMap, Query |-> EmptyMap]

\* The incoming contexts: without deadline, or with the deadline some outer
\* handler set.
Incoming == {Background} \cup {[deadline |-> Fixture, ok |-> TRUE, err |-> "nil"]}

NotCalled == [ctx |-> "none", deadline |-> 0, ok |-> FALSE, err |-> "nil"]

StatusBadRequest == 400
StatusOK == 200

(***************************************************************************)
(* The adapter.                                                            *)
(***************************************************************************)
\* h.ServeHTTP(w, r): the wrapped handler starts and observes the context of
\* the request it was given.
ServeHTTP(i, which, c) ==
    /\ calls' = [calls EXCEPT ![i] = @ + 1]
    /\ recv' = [recv EXCEPT ![i] = [ctx |-> which, deadline |-> c.deadline,
                                     ok |-> c.ok, err |-> c.err]]
    /\ pc' = [pc EXCEPT ![i] = "handler"]

\* The rejection without its return: the handler is still served.
BadRequestNoReturn(i) ==
    /\ resp' = [resp EXCEPT ![i] = Append(@, [by |-> "adapter",
                                               code |-> StatusBadRequest])]
    /\ ServeHTTP(i, "parent", parent[i])
    /\ UNCHANGED <<child, deferred>>

\* w.WriteHeader(http.StatusBadRequest); return
BadRequest(i) ==
    /\ resp' = [resp EXCEPT ![i] = Append(@, [by |-> "adapter",
                                               code |-> StatusBadRequest])]
    /\ pc' = [pc EXCEPT ![i] = "done"]
    /\ UNCHANGED <<child, deferred, calls, recv>>

\* ctx, cancel := context.WithDeadline(req.Context(), time); defer cancel();
\* h.ServeHTTP(w, req.WithContext(ctx))
ServeWithDeadline(i, time) ==
    LET ctx == WithDeadline(parent[i], time, now)
    IN  /\ child' = [child EXCEPT ![i] = ctx]
        /\ deferred' = [deferred EXCEPT ![i] = <<"cancel">> \o @]
        /\ ServeHTTP(i, "child", ctx)
        /\ UNCHANGED resp

\* h.ServeHTTP(w, req); return
ServeOriginal(i) ==
    /\ ServeHTTP(i, "parent", parent[i])
    /\ UNCHANGED <<child, deferred, resp>>

\* The handler FromHeader(HeaderName, h) returns, up to the call of h.
FromHeader(i) ==
    /\ pc[i] = "start"
    /\ req[i].kind = "header"
    /\ IF ~HeaderHas(req[i].Header, HeaderName)
       THEN ServeOriginal(i)
       ELSE LET val == HeaderGet(req[i].Header, HeaderName)
                parsed == ParseTime(val)
            IN  IF val = <<>> \/ parsed.err
                THEN BadRequest(i)
                ELSE ServeWithDeadline(i, parsed.time)
    /\ UNCHANGED <<now, req, parent, panicking, cancelCalls>>

\* An adapter that also rejects a deadline that has already passed.
FromQueryParamsRejectsPast(i) ==
    /\ pc[i] = "start"
    /\ req[i].kind = "query"
    /\ IF ~QueryHas(req[i].Query, QueryName)
       THEN ServeOriginal(i)
       ELSE LET val == QueryGet(req[i].Query, QueryName)
                parsed == ParseTime(val)
            IN  IF val = <<>> \/ parsed.err \/ parsed.time < now
                THEN BadRequest(i)
                ELSE ServeWithDeadline(i, parsed.time)
    /\ UNCHANGED <<now, req, parent, panicking, cancelCalls>>

\* The handler FromQueryParams(QueryName, h) returns, up to the call of h.
FromQueryParams(i) ==
    /\ pc[i] = "start"
    /\ req[i].kind = "query"
    /\ IF ~QueryHas(req[i].Query, QueryName)
       THEN ServeOriginal(i)
       ELSE LET val == QueryGet(req[i].Query, QueryName)
                parsed == ParseTime(val)
            IN  IF val = <<>> \/ parsed.err
                THEN BadRequest(i)
                ELSE ServeWithDeadline(i, parsed.time)
    /\ UNCHANGED <<now, req, parent, panicking, cancelCalls>>

(***************************************************************************)
(* The wrapped handler: it may write a status, and it returns or panics.   *)
(***************************************************************************)
HandlerWrite(i) ==
    /\ pc[i] = "handler"
    /\ resp[i] = <<>>
    /\ resp' = [resp EXCEPT ![i] = Append(@, [by |-> "handler", code |-> StatusOK])]
    /\ UNCHANGED <<now, req, parent, child, pc, deferred, panicking, calls, recv,
                   cancelCalls>>

\* Cleanup placed after the call instead of deferred: a panic skips it.
AfterHandlerNoUnwind(i, panicked) ==
    IF panicked THEN "panicked"
    ELSE IF deferred[i] # <<>> THEN "deferred" ELSE "done"

\* Where an invocation goes when the handler's call ends: to its deferred
\* calls if there are any, else back to its caller.
AfterHandler(i, panicked) ==
    IF deferred[i] # <<>> THEN "deferred"
    ELSE IF panicked THEN "panicked" ELSE "done"

HandlerReturn(i) ==
    /\ pc[i] = "handler"
    /\ pc' = [pc EXCEPT ![i] = AfterHandler(i, FALSE)]
    /\ UNCHANGED <<now, req, parent, child, deferred, panicking, calls, recv, resp,
                   cancelCalls>>

HandlerPanic(i) ==
    /\ pc[i] = "handler"
    /\ panicking' = [panicking EXCEPT ![i] = TRUE]
    /\ pc' = [pc EXCEPT ![i] = AfterHandler(i, TRUE)]
    /\ UNCHANGED <<now, req, parent, child, deferred, calls, recv, resp, cancelCalls>>

\* A cancel function shared by the invocations: it cancels every child.
DeferredCancelShared(i) ==
    /\ pc[i] = "deferred"
    /\ Head(deferred[i]) = "cancel"
    /\ deferred' = [deferred EXCEPT ![i] = Tail(@)]
    /\ child' = [j \in Procs |-> IF child[j].exists THEN cancel(child[j]) ELSE child[j]]
    /\ cancelCalls' = [cancelCalls EXCEPT ![i] = @ + 1]
    /\ pc' = [pc EXCEPT ![i] = IF panicking[i] THEN "panicked" ELSE "done"]
    /\ UNCHANGED <<now, req, parent, panicking, calls, recv, resp>>

\* defer cancel(): runs when the adapter's function returns or unwinds.
DeferredCancel(i) ==
    /\ pc[i] = "deferred"
    /\ Head(deferred[i]) = "cancel"
    /\ deferred' = [deferred EXCEPT ![i] = Tail(@)]
    /\ child' = [child EXCEPT ![i] = cancel(@)]
    /\ cancelCalls' = [cancelCalls EXCEPT ![i] = @ + 1]
    /\ pc' = [pc EXCEPT ![i] = IF panicking[i] THEN "panicked" ELSE "done"]
    /\ UNCHANGED <<now, req, parent, panicking, calls, recv, resp>>

(***************************************************************************)
(* The environment: the clock, the timers of the contexts, and whoever     *)
(* owns the incoming context.                                              *)
(***************************************************************************)
Running(i) == pc[i] \in {"start", "handler", "deferred"}

Tick ==
    /\ Rest(now) < MaxTick
    /\ now' = now + 1
    /\ UNCHANGED <<req, parent, child, pc, deferred, panicking, calls, recv, resp,
                   cancelCalls>>

\* An expiry that also ends the invocation with a timeout response.
ChildTimerAborts(i) ==
    /\ child[i].timer
    /\ child[i].deadline <= now
    /\ child' = [child EXCEPT ![i] = [@ EXCEPT !.err = "DeadlineExceeded",
                                                !.timer = FALSE]]
    /\ resp' = [resp EXCEPT ![i] = Append(@, [by |-> "adapter",
                                               code |-> StatusBadRequest])]
    /\ pc' = [pc EXCEPT ![i] = "done"]
    /\ UNCHANGED <<now, req, parent, deferred, panicking, calls, recv, cancelCalls>>

\* The timer of the child's deadline fires.
ChildTimer(i) ==
    /\ child[i].timer
    /\ child[i].deadline <= now
    /\ child' = [child EXCEPT ![i] = [@ EXCEPT !.err = "DeadlineExceeded",
                                                !.timer = FALSE]]
    /\ UNCHANGED <<now, req, parent, pc, deferred, panicking, calls, recv, resp,
                   cancelCalls>>

\* The timer of the incoming context's deadline fires.
ParentTimer(i) ==
    /\ Running(i)
    /\ parent[i].ok /\ parent[i].err = "nil"
    /\ parent[i].deadline <= now
    /\ parent' = [parent EXCEPT ![i] = [@ EXCEPT !.err = "DeadlineExceeded"]]
    /\ child' = [child EXCEPT ![i] = propagateCancel(@, "DeadlineExceeded")]
    /\ UNCHANGED <<now, req, pc, deferred, panicking, calls, recv, resp, cancelCalls>>

\* The incoming context is cancelled (the client went away).
ParentCancel(i) ==
    /\ Running(i)
    /\ parent[i].err = "nil"
    /\ parent' = [parent EXCEPT ![i] = [@ EXCEPT !.err = "Canceled"]]
    /\ child' = [child EXCEPT ![i] = propagateCancel(@, "Canceled")]
    /\ UNCHANGED <<now, req, pc, deferred, panicking, calls, recv, resp, cancelCalls>>

(***************************************************************************)
(* Specifications.                                                         *)
(***************************************************************************)
InitWith(rs, ps) ==
    /\ now = Stamp(NowYear, 0)
    /\ req = rs
    /\ parent = ps
    /\ child = [i \in Procs |-> NoChild]
    /\ pc = [i \in Procs |-> IF rs[i] = NoRequest THEN "idle" ELSE "start"]
    /\ deferred = [i \in Procs |-> <<>>]
    /\ panicking = [i \in Procs |-> FALSE]
    /\ calls = [i \in Procs |-> 0]
    /\ recv = [i \in Procs |-> NotCalled]
    /\ resp = [i \in Procs |-> <<>>]
    /\ cancelCalls = [i \in Procs |-> 0]

\* One request, of any shape.
Init ==
    \E r \in Requests, p \in Incoming :
        InitWith([i \in Procs |-> IF i = "a" THEN r ELSE NoRequest],
                 [i \in Procs |-> IF i = "a" THEN p ELSE Background])

Next ==
    \/ \E i \in Procs : FromHeader(i)
    \/ \E i \in Procs : FromQueryParams(i)
    \/ \E i \in Procs : HandlerWrite(i)
    \/ \E i \in Procs : HandlerReturn(i)
    \/ \E i \in Procs : HandlerPanic(i)
    \/ \E i \in Procs : DeferredCancel(i)
    \/ Tick
    \/ \E i \in Procs : ChildTimer(i)
    \/ \E i \in Procs : ParentTimer(i)
    \/ \E i \in Procs : ParentCancel(i)

Spec == Init /\ [][Next]_vars

\* The values concurrent requests carry.
ConcValues ==
    {<<>>, asTimeFormat(Fixture), asRFC850(Stamp(NowYear, MaxTick)),
     asANSIC(Fixture) \o garbage}

ConcRequests ==
    {[kind |-> "header", Header |-> h, Query |-> EmptyMap] :
        h \in {EmptyMap} \cup {CanonicalHeaderKey(HeaderName) :> <<v>> : v \in ConcValues}}
    \cup
    {[kind |-> "query", Header |-> EmptyMap, Query |-> q] :
        q \in {EmptyMap} \cup {QueryName :> <<v>> : v \in ConcValues}}

\* Two requests served concurrently.
InitConc ==
    \E rs \in [Procs -> ConcRequests], ps \in [Procs -> Incoming] : InitWith(rs, ps)

SpecConc == InitConc /\ [][Next]_vars

TypeOK ==
    /\ now \in Int
    /\ \A i \in Procs :
        /\ pc[i] \in {"idle", "start", "handler", "deferred", "done", "panicked"}
        /\ calls[i] \in Nat
        /\ cancelCalls[i] \in Nat

(***************************************************************************)
(* Vocabulary of the properties, read off the request itself.              *)
(***************************************************************************)
Field(i) == IF req[i].kind = "header" THEN req[i].Header ELSE req[i].Query

FieldKey(i) == IF req[i].kind = "header" THEN "X-Mtp-Deadline" ELSE "mtpdeadline"

Absent(i) == FieldKey(i) \notin DOMAIN Field(i)

FieldValues(i) == IF Absent(i) THEN <<>> ELSE Field(i)[FieldKey(i)]

\* The value of the field: its first value, the empty string if it has none.
RawValue(i) == IF FieldValues(i) = <<>> THEN <<>> ELSE FieldValues(i)[1]

WellFormed(i) == ~Absent(i) /\ RawValue(i) \in ValidValues

Started(i) == pc[i] \in {"handler", "deferred", "done", "panicked"}

Ended(i) == pc[i] \in {"done", "panicked"}

\* What the adapter itself wrote to the response.
AdapterWrites(i) == SelectSeq(resp[i], LAMBDA w : w.by = "adapter")

Rejected(i) == AdapterWrites(i) # <<>>

Earlier(p, t) == IF p.ok /\ p.deadline < t THEN p.deadline ELSE t

InWindow(t) == Year(t) \in 1969..2068

(***************************************************************************)
(* Properties.                                                             *)
(***************************************************************************)
\* C1: once an invocation has passed the adapter's decision, the wrapped
\* handler was invoked exactly once if the field is absent or its value is in
\* an accepted layout, and zero times otherwise; it is never invoked twice, and
\* every invocation is either "handler invoked" or "request rejected", never
\* both and never neither.
C1_InvokedOnceIffAbsentOrParsed ==
    \A i \in Procs :
        /\ calls[i] <= 1
        /\ ~Started(i) => calls[i] = 0 /\ ~Rejected(i)
        /\ Started(i) =>
            /\ calls[i] = 1 <=> (Absent(i) \/ WellFormed(i))
            /\ calls[i] = 0 <=> Rejected(i)

C1_Witness ==
    /\ pc["a"] = "done" /\ WellFormed("a") /\ calls["a"] = 1
    /\ Len(FieldValues("a")) = 2

\* C2: when the field is absent, the handler receives the incoming context
\* itself: no child is derived, no cancel function exists or is called, and
\* the context has a deadline exactly when the incoming one has, the same one.
C2_AbsentKeepsIncomingContext ==
    \A i \in Procs :
        Started(i) /\ Absent(i) =>
            /\ recv[i].ctx = "parent"
            /\ ~child[i].exists
            /\ deferred[i] = <<>> /\ cancelCalls[i] = 0
            /\ recv[i].ok = parent[i].ok
            /\ recv[i].deadline = parent[i].deadline

C2_Witness ==
    /\ pc["a"] = "done" /\ Absent("a") /\ calls["a"] = 1
    /\ parent["a"].ok /\ recv["a"].ok

\* C3 as stated: for a value in an accepted layout that encodes the instant
\* t, the handler receives a child context whose deadline is set and equal to
\* t, whatever the incoming context carries.
C3_AsStated ==
    \A i \in Procs : \A t \in Instants : \A l \in Layouts :
        Started(i) /\ ~Absent(i) /\ RawValue(i) = Format(t, l) =>
            /\ recv[i].ctx = "child"
            /\ recv[i].ok
            /\ recv[i].deadline = t

\* C3 as amended: for a value in an accepted layout the handler receives a
\* child context whose deadline is set and is the earlier of the parsed
\* timestamp and the incoming context's deadline; the three encodings of an
\* instant whose year is in 1969..2068 all parse to that instant.
C3_DeadlineIsEarlierOfParsedAndIncoming ==
    \A i \in Procs :
        Started(i) /\ WellFormed(i) =>
            /\ recv[i].ctx = "child"
            /\ child[i].exists
            /\ recv[i].ok
            /\ recv[i].deadline = Earlier(parent[i], ParseTime(RawValue(i)).time)
            /\ child[i].deadline = recv[i].deadline
            /\ \A t \in Instants : \A l \in Layouts :
                   RawValue(i) = Format(t, l) /\ InWindow(t) =>
                       recv[i].deadline = Earlier(parent[i], t)

C3_Witness ==
    /\ pc["a"] = "done" /\ calls["a"] = 1
    /\ RawValue("a") = asRFC850(Stamp(NowYear, MaxTick))
    /\ parent["a"].ok
    /\ recv["a"].ok /\ recv["a"].deadline = parent["a"].deadline
    /\ recv["a"].deadline < Stamp(NowYear, MaxTick)

\* C4: the context derived from a parsed deadline never has a deadline later
\* than the parsed timestamp, neither when the handler receives it nor later.
C4_ParsedIsUpperBound ==
    \A i \in Procs :
        recv[i].ctx = "child" =>
            /\ recv[i].ok /\ recv[i].deadline <= ParseTime(RawValue(i)).time
            /\ child[i].ok /\ child[i].deadline <= ParseTime(RawValue(i)).time
            /\ \A t \in Instants : \A l \in Layouts \ {RFC850} :
                   RawValue(i) = Format(t, l) => recv[i].deadline <= t

C4_Witness ==
    /\ pc["a"] = "done" /\ recv["a"].ctx = "child"
    /\ parent["a"].ok /\ recv["a"].deadline < parent["a"].deadline

\* C5: the adapter has written to the response exactly when it has decided
\* on a request whose field is present with an empty or unaccepted value, and
\* then it wrote status 400 once and nothing else; otherwise every write to
\* the response is the wrapped handler's.
C5_AdapterWritesOnly400OnInvalid ==
    \A i \in Procs :
        /\ Rejected(i) <=> (pc[i] # "start" /\ pc[i] # "idle"
                               /\ ~Absent(i) /\ ~WellFormed(i))
        /\ Rejected(i) =>
               resp[i] = <<[by |-> "adapter", code |-> StatusBadRequest]>>
        /\ ~Rejected(i) => \A k \in 1..Len(resp[i]) : resp[i][k].by = "handler"

C5_Witness ==
    /\ pc["a"] = "done" /\ calls["a"] = 0
    /\ RawValue("a") = asRFC850(Fixture) \o garbage
    /\ resp["a"] = <<[by |-> "adapter", code |-> StatusBadRequest]>>

\* C6: the cancel function of a derived child is called only after the
\* handler's call has ended, at most once, and exactly once by the time the
\* invocation has ended, whether the handler returned or panicked; where no
\* child was derived nothing is cancelled, and while the handler runs a
\* child is cancelled only through its incoming context or its deadline.
C6_CancelOnceAfterHandler ==
    \A i \in Procs :
        /\ cancelCalls[i] <= 1
        /\ pc[i] \in {"idle", "start", "handler", "deferred"} => cancelCalls[i] = 0
        /\ Ended(i) /\ child[i].exists => cancelCalls[i] = 1 /\ child[i].err # "nil"
        /\ Ended(i) => deferred[i] = <<>>
        /\ ~child[i].exists => cancelCalls[i] = 0 /\ deferred[i] = <<>>
        /\ pc[i] = "handler" /\ child[i].err = "Canceled" => parent[i].err = "Canceled"

C6_Witness ==
    /\ pc["a"] = "panicked" /\ child["a"].exists
    /\ cancelCalls["a"] = 1 /\ child["a"].err = "Canceled"

\* The per-invocation outcome: how often the handler was invoked, what the
\* adapter wrote, and the deadline of the context the handler received.
Outcome(i) ==
    [calls |-> calls[i], written |-> AdapterWrites(i), ctx |-> recv[i].ctx,
     ok |-> recv[i].ok, deadline |-> recv[i].deadline]

SameIncoming(i, j) ==
    parent[i].ok = parent[j].ok /\ parent[i].deadline = parent[j].deadline

\* C7: an invocation of FromHeader and an invocation of FromQueryParams whose
\* named fields are in the same presence state with the same values, under
\* the same incoming context, have the same outcome.
C7_HeaderAndQueryAgree ==
    \A i, j \in Procs :
        /\ req[i].kind = "header" /\ req[j].kind = "query"
        /\ Started(i) \/ Rejected(i)
        /\ Started(j) \/ Rejected(j)
        /\ Absent(i) = Absent(j) /\ FieldValues(i) = FieldValues(j)
        /\ SameIncoming(i, j)
        => Outcome(i) = Outcome(j)

C7_Witness ==
    /\ req["a"].kind = "header" /\ req["b"].kind = "query"
    /\ pc["a"] = "done" /\ pc["b"] = "done"
    /\ RawValue("a") = <<>> /\ ~Absent("a")
    /\ RawValue("b") = <<>> /\ ~Absent("b")
    /\ Rejected("a") /\ Rejected("b")

\* Everything an invocation owns.
Own(i) ==
    <<req[i], parent[i], child[i], pc[i], deferred[i], panicking[i], calls[i],
      recv[i], resp[i], cancelCalls[i]>>

\* The outcome a request has when it is the only one: rejected with 400 when
\* the field is present but empty or unaccepted, else the handler invoked
\* once with the incoming context (field absent) or the child bounded by the
\* earlier of the parsed and the incoming deadline.
Alone(i) ==
    IF Absent(i)
    THEN [calls |-> 1, written |-> <<>>, ctx |-> "parent", ok |-> parent[i].ok,
          deadline |-> parent[i].deadline]
    ELSE IF WellFormed(i)
    THEN [calls |-> 1, written |-> <<>>, ctx |-> "child", ok |-> TRUE,
          deadline |-> Earlier(parent[i], ParseTime(RawValue(i)).time)]
    ELSE [calls |-> 0,
          written |-> <<[by |-> "adapter", code |-> StatusBadRequest]>>,
          ctx |-> "none", ok |-> FALSE, deadline |-> 0]

\* C8: under concurrent invocations each invocation's outcome is the one its
\* own request has alone; two invocations with the same request and incoming
\* context have the same outcome; and no step changes what two invocations
\* own, so that cancelling or expiring one child leaves the other
\* invocation's contexts as they were.
C8_InvocationsIndependent ==
    /\ [](\A i \in Procs : Started(i) \/ Rejected(i) => Outcome(i) = Alone(i))
    /\ [](\A i, j \in Procs :
            /\ Started(i) \/ Rejected(i)
            /\ Started(j) \/ Rejected(j)
            /\ req[i] = req[j] /\ SameIncoming(i, j)
            => Outcome(i) = Outcome(j))
    /\ [][\A i, j \in Procs : i # j => Own(i)' = Own(i) \/ Own(j)' = Own(j)]_vars

C8_Witness ==
    /\ req["a"] = req["b"] /\ WellFormed("a")
    /\ pc["a"] = "done" /\ cancelCalls["a"] = 1 /\ child["a"].err = "Canceled"
    /\ pc["b"] = "handler" /\ child["b"].exists /\ child["b"].err = "nil"
    /\ recv["a"].deadline = recv["b"].deadline

\* C9: a step in which the child's deadline expires while the handler runs
\* changes nothing else of the invocation: the handler keeps running, nothing
\* is written, the cancel function is not called; and an invocation leaves
\* the handler only by the handler's own return or panic, with the response
\* and the child untouched by the adapter in that step.
C9_ExpiryDoesNotEndHandler ==
    [][\A i \in Procs :
          /\ (/\ pc[i] = "handler"
              /\ child[i].err = "nil"
              /\ child[i]'.err = "DeadlineExceeded")
             => /\ pc[i]' = "handler"
                /\ resp[i]' = resp[i]
                /\ cancelCalls[i]' = cancelCalls[i]
                /\ calls[i]' = calls[i]
          /\ (pc[i] = "handler" /\ pc[i]' # "handler")
             => /\ pc[i]' \in {"deferred", "done", "panicked"}
                /\ resp[i]' = resp[i]
                /\ child[i]' = child[i]
                /\ pc[i]' = "deferred" <=> child[i].exists]_vars

C9_Witness ==
    /\ pc["a"] = "done" /\ recv["a"].ctx = "child"
    /\ recv["a"].err = "nil" /\ child["a"].err = "DeadlineExceeded"
    /\ child["a"].deadline = ParseTime(RawValue("a")).time
    /\ cancelCalls["a"] = 1 /\ resp["a"] = <<[by |-> "handler", code |-> StatusOK]>>

\* The step in which the adapter decides on a request whose well-formed
\* deadline has already passed.
DecidesPast(i) ==
    /\ pc[i] = "start" /\ pc[i]' # "start"
    /\ WellFormed(i)
    /\ ParseTime(RawValue(i)).time < now

\* C10 as stated: a well-formed deadline already in the past is not
\* rejected; the handler is invoked once with a child that carries the parsed
\* deadline and is already expired when the handler starts.
C10_AsStated ==
    [][\A i \in Procs :
          DecidesPast(i) =>
              /\ resp[i]' = <<>> /\ calls[i]' = 1 /\ pc[i]' = "handler"
              /\ recv[i]'.ctx = "child" /\ recv[i]'.ok
              /\ recv[i]'.deadline = ParseTime(RawValue(i)).time
              /\ recv[i]'.err # "nil"]_vars

\* C10 as amended: a well-formed deadline already in the past is not
\* rejected; the handler is invoked once with a child whose deadline is the
\* earlier of the parsed and the incoming deadline, and when that is the
\* parsed one the child is already expired when the handler starts.
C10_PastDeadlineServedExpired ==
    [][\A i \in Procs :
          DecidesPast(i) =>
              /\ resp[i]' = <<>> /\ calls[i]' = 1 /\ pc[i]' = "handler"
              /\ recv[i]'.ctx = "child" /\ recv[i]'.ok
              /\ recv[i]'.deadline = Earlier(parent[i], ParseTime(RawValue(i)).time)
              /\ recv[i]'.deadline = ParseTime(RawValue(i)).time
                    => recv[i]'.err # "nil" /\ child[i]'.err # "nil"]_vars

C10_Witness ==
    /\ pc["a"] = "done" /\ calls["a"] = 1 /\ resp["a"] = <<>>
    /\ RawValue("a") = asTimeFormat(Stamp(NowYear, 0))
    /\ ~parent["a"].ok
    /\ recv["a"].deadline = Stamp(NowYear, 0)
    /\ recv["a"].err = "DeadlineExceeded"

====
